---------------------------- MODULE Spec2Model ----------------------------
(***************************************************************************)
(* Model of the segmented map (src/map.go) and of its segment router       *)
(* (src/inthash/hash.go).                                                  *)
(*                                                                         *)
(* A 32-bit word is kept as two 16-bit limbs [hi, lo], because the         *)
(* integers of TLC are 32-bit signed.                                      *)
(***************************************************************************)
EXTENDS Integers, Sequences, FiniteSets, TLC

(***************************************************************************)
(* Bounds of the model.                                                    *)
(***************************************************************************)
\* segment counts handed to NewHash / NewSegmentedMap: 0..MaxSegmentCount
MaxSegmentCount == 2
\* map keys are the ints 1..MaxKey
MaxKey == 2
\* map values are the ints 0..MaxValue (0 is the zero value of V)
MaxValue == 1
\* Delete is called with at most MaxDeleteKeys keys
MaxDeleteKeys == 2
\* threads (goroutines) calling the map concurrently
NumThreads == 2
\* threads in the specification of the locks alone
NumLockThreads == 3
\* segment counts handed to the router alone: 0..MaxRouterSegments
MaxRouterSegments == 3
\* integer keys handed to the router alone: 0..MaxRouterInt; the float keys
\* are these and these plus one half, the strings "test-0".."test-<n>"
MaxRouterInt == 1
MaxRouteSegments == 3

(***************************************************************************)
(* Bit arithmetic on naturals.                                             *)
(***************************************************************************)
RECURSIVE Pow2(_)
Pow2(n) == IF n = 0 THEN 1 ELSE 2 * Pow2(n - 1)

RECURSIVE BitXor(_, _)
BitXor(a, b) ==
    IF a = 0 THEN b
    ELSE IF b = 0 THEN a
    ELSE (((a % 2) + (b % 2)) % 2) + 2 * BitXor(a \div 2, b \div 2)

RECURSIVE BitAnd(_, _)
BitAnd(a, b) ==
    IF a = 0 \/ b = 0 THEN 0
    ELSE ((a % 2) * (b % 2)) + 2 * BitAnd(a \div 2, b \div 2)

\* floor(log2(n)) for n >= 1: what uint16(math.Log2(float64(n))) truncates to
RECURSIVE FloorLog2(_)
FloorLog2(n) == IF n <= 1 THEN 0 ELSE 1 + FloorLog2(n \div 2)

(***************************************************************************)
(* 32-bit words as limbs, little-endian bytes, FNV-1.                      *)
(***************************************************************************)
\* uint32(v) of a signed integer v: its low 32 bits (two's complement)
Word32(v) == [hi |-> (v \div 65536) % 65536, lo |-> v % 65536]

\* a + b modulo 2^32
AddWord32(a, b) ==
    LET lo == a.lo + b.lo
    IN  [hi |-> (a.hi + b.hi + (lo \div 65536)) % 65536, lo |-> lo % 65536]

\* binary.LittleEndian.PutUint16 of the low 16 bits of v
PutUint16(v) == << (v % 65536) % 256, (v % 65536) \div 256 >>

\* binary.LittleEndian.PutUint32
PutUint32(w) == PutUint16(w.lo) \o PutUint16(w.hi)

\* binary.LittleEndian.PutUint64 of a 64-bit value that is the sign extension
\* (signed = TRUE) or the zero extension of v
PutUint64(v, signed) ==
    LET ext == IF signed /\ v < 0 THEN 255 ELSE 0
    IN  PutUint32(Word32(v)) \o << ext, ext, ext, ext >>

\* fnv.New32: the offset basis 2166136261 = 0x811C9DC5
FnvOffset32 == [hi |-> 33052, lo |-> 40389]

\* one round of FNV-1: hash *= 16777619 (0x01000193), then hash ^= byte
FnvStep(h, byte) ==
    LET low  == h.lo * 403
        high == (h.hi * 403) + (h.lo * 256) + (low \div 65536)
    IN  [hi |-> high % 65536, lo |-> BitXor(low % 65536, byte)]

\* h.Write(bytes); h.Sum32()
RECURSIVE FnvWrite(_, _)
FnvWrite(h, bytes) ==
    IF bytes = << >> THEN h
    ELSE FnvWrite(FnvStep(h, Head(bytes)), Tail(bytes))

Fnv32(bytes) == FnvWrite(FnvOffset32, bytes)

(***************************************************************************)
(* The segment router: src/inthash/hash.go.                                *)
(*                                                                         *)
(* A router key is [kind, val]: kind is the reflect.Kind of the key; val   *)
(* is an integer for the integer kinds, the sequence of the bytes of the   *)
(* text for String, and for the float kinds the IEEE-754 single-precision  *)
(* fields [exp, man] of float32(k) (k >= 0), the value the code reduces    *)
(* every float key to before it hashes it.                                 *)
(***************************************************************************)
SignedKinds == {"Int", "Int8", "Int16", "Int32", "Int64"}
UnsignedKinds == {"Uint", "Uint8", "Uint16", "Uint32", "Uint64"}
FloatKinds == {"Float32", "Float64"}
\* the kinds of the Hashable constraint
HashableKinds == {"String"} \cup SignedKinds \cup UnsignedKinds \cup FloatKinds

\* the float32 fields of num * 2^(-shift), num >= 0, exactly representable
Float32Fields(num, shift) ==
    IF num = 0 THEN [exp |-> 0, man |-> 0]
    ELSE LET fl == FloorLog2(num)
         IN  [exp |-> 127 + fl - shift, man |-> (num - Pow2(fl)) * Pow2(23 - fl)]

\* math.Float32bits(f) for f >= 0
Float32bits(f) == [hi |-> (f.exp * 128) + (f.man \div 65536), lo |-> f.man % 65536]

\* uint32(f): the integer part of f, for 0 <= f < 2^31
Float32ToUint32(f) ==
    IF f.exp < 127 THEN Word32(0)
    ELSE IF f.exp >= 150 THEN Word32((8388608 + f.man) * Pow2(f.exp - 150))
    ELSE Word32((8388608 + f.man) \div Pow2(150 - f.exp))

\* mask(segments)
mask(segments) ==
    LET size     == IF segments > 1 THEN segments ELSE 1
        bitCount == FloorLog2(size) % 65536
    IN  ((Pow2(bitCount) % 65536) - 1) % 65536

\* NewHash(segments), New(segments)
NewHash(segments) == [segments |-> segments, mask |-> mask(segments)]

\* Hash.Segments
Segments(s) == s.segments

\* reflect.Value.Int: panics unless the kind is a signed integer kind
ValueIntPanics(kind) == kind \notin SignedKinds

\* the bytes Hash.Get writes to the hash for key k, by the kind of k
KeyBytes(k) ==
    CASE k.kind = "String"  -> k.val
      [] k.kind = "Int"     -> PutUint32(Word32(k.val))
      [] k.kind = "Int8"    -> PutUint16(k.val)
      [] k.kind = "Int16"   -> PutUint16(k.val)
      [] k.kind = "Int32"   -> PutUint32(Word32(k.val))
      [] k.kind = "Int64"   -> PutUint64(k.val, TRUE)
      [] k.kind = "Uint"    -> PutUint32(Word32(k.val))
      [] k.kind = "Uint8"   -> PutUint16(k.val)
      [] k.kind = "Uint16"  -> PutUint16(k.val)
      [] k.kind = "Uint32"  -> PutUint32(Word32(k.val))
      [] k.kind = "Uint64"  -> PutUint64(k.val, FALSE)
      [] k.kind \in FloatKinds ->
            PutUint32(AddWord32(Float32bits(k.val), Float32ToUint32(k.val)))

\* whether Hash.Get(k) panics: the integer kinds other than Uint64 read the
\* key with reflect.Value.Int, and a kind outside the switch reaches default
HashGetPanics(k) ==
    \/ k.kind \notin HashableKinds
    \/ k.kind \in (SignedKinds \cup UnsignedKinds) \ {"Uint64"} /\ ValueIntPanics(k.kind)

\* the int keys the map is called with, as router keys
IntKey(n) == [kind |-> "Int", val |-> n]

\* the text "test-<n>" as the bytes of its characters
TestString(n) == << 116, 101, 115, 116, 45, 48 + n >>

RouterKeys ==
    {[kind |-> c, val |-> n] : c \in SignedKinds \cup UnsignedKinds, n \in 0..MaxRouterInt}
    \cup {[kind |-> "String", val |-> TestString(n)] : n \in 0..MaxRouterInt}
    \cup {[kind |-> "String", val |-> << >>]}
    \cup {[kind |-> c, val |-> Float32Fields(2 * n + d, 1)] :
            c \in FloatKinds, n \in 0..MaxRouterInt, d \in {0, 1}}
    \cup {[kind |-> "Bool", val |-> 0]}

\* the digests of the int keys 1..8 and of the router keys that reach the
\* hash, computed once
SumTable ==
    [k \in {IntKey(n) : n \in 1..8} \cup {x \in RouterKeys : ~HashGetPanics(x)}
        |-> Fnv32(KeyBytes(k))]

\* b: h.Sum32() after h.Write of the bytes of k
Sum32(k) == IF k \in DOMAIN SumTable THEN SumTable[k] ELSE Fnv32(KeyBytes(k))

\* Hash.Get(k): [panic, index]; index = b & int(s.mask) when it returns
HashGet(s, k) ==
    IF HashGetPanics(k)
    THEN [panic |-> TRUE, index |-> 0]
    ELSE [panic |-> FALSE, index |-> BitAnd(Sum32(k).lo, s.mask)]

(***************************************************************************)
(* The segmented map: src/map.go, instantiated with K = int and V = int.   *)
(***************************************************************************)
VARIABLES
    hash,       \* s.hash: the router [segments, mask]
    segment,    \* s.segment: index -> (key -> value), a partial function
    mutex,      \* s.mutex: index -> state of the sync.RWMutex
    segmented,  \* s.segmented
    th,         \* thread -> the operation it executes and its locals
    panicked,   \* a goroutine panicked: the program has stopped
    abs,        \* history: key -> the value last stored for it, or Absent
    routers,    \* router id -> a router built by NewHash, or NoRouter
    routed      \* router id -> the last call of Hash.Get on it, or NoCall

vars == << hash, segment, mutex, segmented, th, panicked, abs, routers, routed >>
mapVars == << hash, segment, mutex, segmented >>
routerVars == << routers, routed >>

Threads == 1..NumThreads
Keys == 1..MaxKey
Values == 0..MaxValue
SegmentCounts == 0..MaxSegmentCount

\* zero[V]()
Zero == 0
\* "no entry" in the history and in the snapshot of a lookup
Absent == 0 - 1
\* the keys the history covers
KeyDomain == 1..(IF MaxKey > NumThreads THEN MaxKey ELSE NumThreads)

\* the user functions V -> V handed to Update, UpdateExisting and Calculate
Fns == {"inc", "keep"}
Apply(fn, x) == IF fn = "inc" THEN (x + 1) % (MaxValue + 1) ELSE x

\* make(map[K]V)
EmptyMap == [x \in {} |-> Zero]
\* v, ok := m[k]
Has(m, k) == k \in DOMAIN m
ValueOf(m, k) == IF k \in DOMAIN m THEN m[k] ELSE Zero
\* a store that drops the other entries of the segment
MapPutAlone(m, k, v) == [x \in {k} |-> v]
\* m[k] = v
MapPut(m, k, v) == [x \in (DOMAIN m) \cup {k} |-> IF x = k THEN v ELSE m[x]]
\* delete(m, k)
MapDelete(m, k) == [x \in (DOMAIN m) \ {k} |-> m[x]]
\* a loop that deletes the first key of the list only
MapDeleteFirst(m, ks) == IF ks = << >> THEN m ELSE MapDelete(m, Head(ks))
\* delete(m, k) for every k of a list
RECURSIVE MapDeleteAll(_, _)
MapDeleteAll(m, ks) ==
    IF ks = << >> THEN m ELSE MapDeleteAll(MapDelete(m, Head(ks)), Tail(ks))

\* what a critical section finds for k: its value, or Absent
Before(m, k) == IF k \in DOMAIN m THEN m[k] ELSE Absent

\* an unlocked sync.RWMutex: w is the writer that holds or waits for the
\* write lock (0: none), readers the holders of the read lock, rwait the
\* readers blocked behind w
FreeMutex == [w |-> 0, readers |-> {}, rwait |-> {}]

\* s.hash.Get(k) for a key of the map
Route(k) == HashGet(hash, IntKey(k)).index

\* NewSegmentedMap(segmentCount, segmentCapacity): the fields of the map
NewSegmentedMap(segmentCount) ==
    LET h == NewHash(segmentCount)
    IN  [hash      |-> h,
         segmented |-> Segments(h) > 1,
         segment   |-> [i \in 0..(segmentCount - 1) |-> EmptyMap],
         mutex     |-> [i \in 0..(segmentCount - 1) |-> FreeMutex]]

\* The call a user function makes back into the map, s.Set(k, v): k = 0
\* says the function makes none, h is the segment of k, pc the position of
\* the call ("none", "lock", "lockwait", "cs") and n the number of calls
\* that have returned.
NoCallback == [k |-> 0, v |-> Zero, h |-> 0, pc |-> "none", n |-> 0]

\* a thread outside every operation
IdleRec ==
    [pc |-> "idle", op |-> "none", k |-> 0, keys |-> << >>, v |-> Zero,
     fn |-> "keep", pred |-> {}, h |-> 0, pend |-> {}, todo |-> {},
     rv |-> Zero, rok |-> FALSE, rseq |-> << >>, calls |-> 0, pre |-> Absent,
     hist |-> Absent, stop |-> FALSE, cb |-> NoCallback]

NoRouter == [segments |-> -1, mask |-> 0]
NoCall == [key |-> [kind |-> "none", val |-> 0], panic |-> FALSE, index |-> 0]

\* the state after construction with segment count n
MapInit(n) ==
    LET m == NewSegmentedMap(n)
    IN  /\ hash = m.hash
        /\ segment = m.segment
        /\ mutex = m.mutex
        /\ segmented = m.segmented
        /\ th = [t \in Threads |-> IdleRec]
        /\ panicked = FALSE
        /\ abs = [k \in KeyDomain |-> Absent]

\* no router built yet
RouterInit ==
    /\ routers = [r \in {1, 2} |-> NoRouter]
    /\ routed = [r \in {1, 2} |-> NoCall]

Init ==
    /\ \E n \in SegmentCounts : MapInit(n)
    /\ RouterInit

\* s.mutex[i].Lock() by thread t on a mutex in state mx: Lock takes the
\* writer slot when it is free, which turns new readers away, and has the
\* lock once no reader holds it
LockTry(mx, t) == IF mx.w = 0 THEN [mx EXCEPT !.w = t] ELSE mx
\* a Lock that does not wait for the readers to leave
LockPcNoWait(mx) == IF mx.w # 0 THEN "lock" ELSE "cs"
LockPc(mx) ==
    IF mx.w # 0 THEN "lock" ELSE IF mx.readers = {} THEN "cs" ELSE "lockwait"

\* s.mutex[i].RLock(): RLock succeeds unless a writer holds or waits for the
\* lock, and then queues behind it
RLockTry(mx, t) ==
    IF mx.w = 0 THEN [mx EXCEPT !.readers = @ \cup {t}]
    ELSE [mx EXCEPT !.rwait = @ \cup {t}]
RLockPc(mx) == IF mx.w = 0 THEN "rcs" ELSE "rblocked"

\* s.mutex[i].Unlock(): the readers queued behind the writer get the lock
ReleaseWrite(mx) == [w |-> 0, readers |-> mx.rwait, rwait |-> {}]

\* s.mutex[i].RUnlock()
ReleaseRead(mx, t) == [mx EXCEPT !.readers = @ \ {t}]

\* Thread t calls the operation described by r, up to its first lock: r.pc
\* says whether that is lock(r.h) or rLock(r.h), or that the call returns
\* ("ret") or panics ("panic") before any lock.  s.mutex[h] with h outside
\* the slice panics and, no goroutine recovering, the program stops.
Begin(t, r) ==
    /\ ~panicked
    /\ th[t].pc = "idle"
    /\ IF r.pc \in {"lock", "rlock"} /\ r.h \notin DOMAIN mutex
       THEN /\ th' = [th EXCEPT ![t] = [r EXCEPT !.pc = "panic"]]
            /\ panicked' = TRUE
            /\ mutex' = mutex
       ELSE IF r.pc = "lock"
       THEN /\ th' = [th EXCEPT ![t] = [r EXCEPT !.pc = LockPc(mutex[r.h])]]
            /\ mutex' = [mutex EXCEPT ![r.h] = LockTry(@, t)]
            /\ panicked' = panicked
       ELSE IF r.pc = "rlock"
       THEN /\ th' = [th EXCEPT ![t] = [r EXCEPT !.pc = RLockPc(mutex[r.h])]]
            /\ mutex' = [mutex EXCEPT ![r.h] = RLockTry(@, t)]
            /\ panicked' = panicked
       ELSE /\ th' = [th EXCEPT ![t] = r]
            /\ panicked' = (r.pc = "panic")
            /\ mutex' = mutex
    /\ UNCHANGED << hash, segment, segmented, abs, routers, routed >>

(***************************************************************************)
(* The lock helpers (lock, unlock, rLock, rUnlock).  A thread at "lock" or *)
(* "rlock" is inside an operation and about to lock s.mutex[h].            *)
(***************************************************************************)
\* a lock(h) that waits for the writers of every segment, as if one mutex
\* guarded the whole map
LockGlobal(t) ==
    /\ ~panicked
    /\ th[t].pc = "lock"
    /\ \A i \in DOMAIN mutex : mutex[i].w = 0
    /\ mutex' = [mutex EXCEPT ![th[t].h] = LockTry(@, t)]
    /\ th' = [th EXCEPT ![t].pc = LockPc(mutex[th[t].h])]
    /\ UNCHANGED << hash, segment, segmented, panicked, abs, routers, routed >>

\* lock(h)
Lock(t) ==
    /\ ~panicked
    /\ th[t].pc = "lock"
    /\ mutex[th[t].h].w = 0
    /\ mutex' = [mutex EXCEPT ![th[t].h] = LockTry(@, t)]
    /\ th' = [th EXCEPT ![t].pc = LockPc(mutex[th[t].h])]
    /\ UNCHANGED << hash, segment, segmented, panicked, abs, routers, routed >>

\* the waiting writer gets the lock when the last reader has left
LockAcquire(t) ==
    /\ ~panicked
    /\ th[t].pc = "lockwait"
    /\ mutex[th[t].h].readers = {}
    /\ th' = [th EXCEPT ![t].pc = "cs"]
    /\ UNCHANGED << mapVars, panicked, abs, routers, routed >>

\* rLock(h)
RLock(t) ==
    /\ ~panicked
    /\ th[t].pc = "rlock"
    /\ mutex' = [mutex EXCEPT ![th[t].h] = RLockTry(@, t)]
    /\ th' = [th EXCEPT ![t].pc = RLockPc(mutex[th[t].h])]
    /\ UNCHANGED << hash, segment, segmented, panicked, abs, routers, routed >>

\* a queued reader runs on once the writer's Unlock has let it in
RWake(t) ==
    /\ ~panicked
    /\ th[t].pc = "rblocked"
    /\ t \in mutex[th[t].h].readers
    /\ th' = [th EXCEPT ![t].pc = "rcs"]
    /\ UNCHANGED << mapVars, panicked, abs, routers, routed >>

\* the operation returns to its caller
Return(t) ==
    /\ ~panicked
    /\ th[t].pc = "ret"
    /\ th' = [th EXCEPT ![t] = IdleRec]
    /\ UNCHANGED << mapVars, panicked, abs, routers, routed >>

\* A critical section of thread t under the write lock of segment h: it
\* leaves m in the segment, then unlock(h); a is the history and r the
\* thread after it.
WriteStep(t, m, a, r) ==
    /\ segment' = [segment EXCEPT ![th[t].h] = m]
    /\ mutex' = [mutex EXCEPT ![th[t].h] = ReleaseWrite(@)]
    /\ abs' = a
    /\ th' = [th EXCEPT ![t] = r]
    /\ UNCHANGED << hash, segmented, panicked, routers, routed >>

\* a critical section under the read lock that leaves without rUnlock(h)
ReadStepNoUnlock(t, r) ==
    /\ th' = [th EXCEPT ![t] = r]
    /\ UNCHANGED << mapVars, panicked, abs, routers, routed >>

\* A critical section of thread t under the read lock of segment h, then
\* rUnlock(h); r is the thread after it.
ReadStep(t, r) ==
    /\ mutex' = [mutex EXCEPT ![th[t].h] = ReleaseRead(@, t)]
    /\ th' = [th EXCEPT ![t] = r]
    /\ UNCHANGED << hash, segment, segmented, panicked, abs, routers, routed >>

(***************************************************************************)
(* Set and Get.                                                            *)
(***************************************************************************)
\* a Set that skips the router and uses segment 0
SetCallSegment0(t) ==
    \E k \in Keys, v \in Values :
        Begin(t, [IdleRec EXCEPT !.op = "Set", !.k = k, !.v = v,
                                 !.h = 0, !.pc = "lock"])

SetCall(t) ==
    \E k \in Keys, v \in Values :
        Begin(t, [IdleRec EXCEPT !.op = "Set", !.k = k, !.v = v,
                                 !.h = Route(k), !.pc = "lock"])

\* s.segment[h][k] = v
SetBody(t) ==
    /\ ~panicked
    /\ th[t].pc = "cs"
    /\ th[t].op = "Set"
    /\ WriteStep(t, MapPut(segment[th[t].h], th[t].k, th[t].v),
                 [abs EXCEPT ![th[t].k] = th[t].v],
                 [th[t] EXCEPT !.pc = "ret"])

GetCall(t) ==
    \E k \in Keys :
        Begin(t, [IdleRec EXCEPT !.op = "Get", !.k = k,
                                 !.h = Route(k), !.pc = "rlock"])

\* a Get that reads segment 0 whatever the key routes to
GetBodySegment0(t) ==
    /\ ~panicked
    /\ th[t].pc = "rcs"
    /\ th[t].op = "Get"
    /\ ReadStep(t, [th[t] EXCEPT !.pc = "ret",
                                 !.rv = ValueOf(segment[0], th[t].k),
                                 !.rok = Has(segment[0], th[t].k),
                                 !.hist = abs[th[t].k]])

\* v, ok := s.segment[h][k]
GetBody(t) ==
    /\ ~panicked
    /\ th[t].pc = "rcs"
    /\ th[t].op = "Get"
    /\ ReadStep(t, [th[t] EXCEPT !.pc = "ret",
                                 !.rv = ValueOf(segment[th[t].h], th[t].k),
                                 !.rok = Has(segment[th[t].h], th[t].k),
                                 !.hist = abs[th[t].k]])

(***************************************************************************)
(* Delete(keys...).                                                        *)
(***************************************************************************)
DeleteKeyLists == UNION {[1..n -> Keys] : n \in 0..MaxDeleteKeys}

\* hashes[h]: the listed keys that route to h, in the order listed
RECURSIVE KeysAt(_, _)
KeysAt(keys, h) ==
    IF keys = << >> THEN << >>
    ELSE IF Route(Head(keys)) = h
         THEN << Head(keys) >> \o KeysAt(Tail(keys), h)
         ELSE KeysAt(Tail(keys), h)

\* the keys of the map hashes
HashesOf(keys) == {Route(keys[i]) : i \in 1..Len(keys)}

\* a Delete that handles the first group of keys only
DeleteCallFirstGroup(t) ==
    \E keys \in DeleteKeyLists :
        IF HashesOf(keys) = {}
        THEN Begin(t, [IdleRec EXCEPT !.op = "Delete", !.keys = keys, !.pc = "ret"])
        ELSE \E h \in HashesOf(keys) :
                Begin(t, [IdleRec EXCEPT !.op = "Delete", !.keys = keys, !.h = h,
                                         !.pend = {}, !.pc = "lock"])

\* a Delete that ranges over every segment of the map, listed keys or not
DeleteCallAllSegments(t) ==
    \E keys \in DeleteKeyLists :
        IF DOMAIN segment = {}
        THEN Begin(t, [IdleRec EXCEPT !.op = "Delete", !.keys = keys, !.pc = "ret"])
        ELSE \E h \in DOMAIN segment :
                Begin(t, [IdleRec EXCEPT !.op = "Delete", !.keys = keys, !.h = h,
                                         !.pend = (DOMAIN segment) \ {h},
                                         !.pc = "lock"])

\* Delete groups the keys and ranges over the groups in any order
DeleteCall(t) ==
    \E keys \in DeleteKeyLists :
        IF HashesOf(keys) = {}
        THEN Begin(t, [IdleRec EXCEPT !.op = "Delete", !.keys = keys, !.pc = "ret"])
        ELSE \E h \in HashesOf(keys) :
                Begin(t, [IdleRec EXCEPT !.op = "Delete", !.keys = keys, !.h = h,
                                         !.pend = HashesOf(keys) \ {h},
                                         !.pc = "lock"])

\* delete(s.segment[h], k) for every key of the group of h, s.unlock(h), and
\* on to the next group
DeleteBody(t) ==
    /\ ~panicked
    /\ th[t].pc = "cs"
    /\ th[t].op = "Delete"
    /\ LET ks == KeysAt(th[t].keys, th[t].h)
           m  == MapDeleteAll(segment[th[t].h], ks)
           a  == [k \in KeyDomain |->
                    IF \E i \in 1..Len(ks) : ks[i] = k THEN Absent ELSE abs[k]]
       IN  IF th[t].pend = {}
           THEN WriteStep(t, m, a, [th[t] EXCEPT !.pc = "ret"])
           ELSE \E h \in th[t].pend :
                   WriteStep(t, m, a, [th[t] EXCEPT !.pc = "lock", !.h = h,
                                                    !.pend = @ \ {h}])

(***************************************************************************)
(* The single-key operations that run a user function under the lock.     *)
(* A predicate is the set of the values it holds for; a supplier is the    *)
(* value it returns.                                                       *)
(***************************************************************************)
\* the predicates handed to DeleteConditional: v == c, as in the tests
Preds == {{c} : c \in Values}

DeleteConditionalCall(t) ==
    \E k \in Keys, p \in Preds :
        Begin(t, [IdleRec EXCEPT !.op = "DeleteConditional", !.k = k, !.pred = p,
                                 !.h = Route(k), !.pc = "lock"])

\* the second result of DeleteConditional when the key is present
DeleteConditionalExisting == FALSE

\* a DeleteConditional that deletes whatever calculate answers
DeleteConditionalBodyAlways(t) ==
    /\ ~panicked
    /\ th[t].pc = "cs"
    /\ th[t].op = "DeleteConditional"
    /\ LET m == segment[th[t].h]
           k == th[t].k
       IN  IF Has(m, k)
           THEN WriteStep(t, MapDelete(m, k), [abs EXCEPT ![k] = Absent],
                          [th[t] EXCEPT !.pc = "ret", !.pre = m[k],
                                        !.calls = @ + 1, !.rv = m[k],
                                        !.rok = DeleteConditionalExisting])
           ELSE WriteStep(t, m, abs,
                          [th[t] EXCEPT !.pc = "ret", !.pre = Absent,
                                        !.rv = Zero, !.rok = FALSE])

DeleteConditionalBody(t) ==
    /\ ~panicked
    /\ th[t].pc = "cs"
    /\ th[t].op = "DeleteConditional"
    /\ LET m == segment[th[t].h]
           k == th[t].k
       IN  IF Has(m, k)
           THEN LET condition == m[k] \in th[t].pred
                IN  WriteStep(t, IF condition THEN MapDelete(m, k) ELSE m,
                              IF condition THEN [abs EXCEPT ![k] = Absent] ELSE abs,
                              [th[t] EXCEPT !.pc = "ret", !.pre = m[k],
                                            !.calls = @ + 1, !.rv = m[k],
                                            !.rok = DeleteConditionalExisting])
           ELSE WriteStep(t, m, abs,
                          [th[t] EXCEPT !.pc = "ret", !.pre = Absent,
                                        !.rv = Zero, !.rok = FALSE])

GetOrSetCall(t) ==
    \E k \in Keys, v \in Values :
        Begin(t, [IdleRec EXCEPT !.op = "GetOrSet", !.k = k, !.v = v,
                                 !.h = Route(k), !.pc = "rlock"])

\* the s.Get(k) GetOrSet starts with: it returns (v, false) when k is there,
\* and goes on to lock(h) when it is not
GetOrSetGet(t) ==
    /\ ~panicked
    /\ th[t].pc = "rcs"
    /\ th[t].op = "GetOrSet"
    /\ ReadStep(t, [th[t] EXCEPT
                      !.pc = IF Has(segment[th[t].h], th[t].k) THEN "ret" ELSE "lock",
                      !.pre = Before(segment[th[t].h], th[t].k),
                      !.rv = ValueOf(segment[th[t].h], th[t].k)])

\* a GetOrSet without the re-check under the write lock
GetOrSetBodyNoRecheck(t) ==
    /\ ~panicked
    /\ th[t].pc = "cs"
    /\ th[t].op = "GetOrSet"
    /\ WriteStep(t, MapPut(segment[th[t].h], th[t].k, th[t].v),
                 [abs EXCEPT ![th[t].k] = th[t].v],
                 [th[t] EXCEPT !.pc = "ret", !.pre = Absent, !.calls = @ + 1,
                               !.rv = th[t].v, !.rok = TRUE])

\* the re-check under the write lock, and calculate() when k is still absent
GetOrSetBody(t) ==
    /\ ~panicked
    /\ th[t].pc = "cs"
    /\ th[t].op = "GetOrSet"
    /\ LET m == segment[th[t].h]
           k == th[t].k
       IN  IF Has(m, k)
           THEN WriteStep(t, m, abs,
                          [th[t] EXCEPT !.pc = "ret", !.pre = m[k],
                                        !.rv = m[k], !.rok = FALSE])
           ELSE WriteStep(t, MapPut(m, k, th[t].v),
                          [abs EXCEPT ![k] = th[t].v],
                          [th[t] EXCEPT !.pc = "ret", !.pre = Absent,
                                        !.calls = @ + 1, !.rv = th[t].v,
                                        !.rok = TRUE])

GetAndDeleteCall(t) ==
    \E k \in Keys :
        Begin(t, [IdleRec EXCEPT !.op = "GetAndDelete", !.k = k,
                                 !.h = Route(k), !.pc = "lock"])

\* a GetAndDelete that returns the value and leaves the entry
GetAndDeleteBodyKeep(t) ==
    /\ ~panicked
    /\ th[t].pc = "cs"
    /\ th[t].op = "GetAndDelete"
    /\ LET m == segment[th[t].h]
           k == th[t].k
       IN  IF Has(m, k)
           THEN WriteStep(t, m, abs,
                          [th[t] EXCEPT !.pc = "ret", !.pre = m[k],
                                        !.rv = m[k], !.rok = TRUE])
           ELSE WriteStep(t, m, abs,
                          [th[t] EXCEPT !.pc = "ret", !.pre = Absent,
                                        !.rv = Zero, !.rok = FALSE])

GetAndDeleteBody(t) ==
    /\ ~panicked
    /\ th[t].pc = "cs"
    /\ th[t].op = "GetAndDelete"
    /\ LET m == segment[th[t].h]
           k == th[t].k
       IN  IF Has(m, k)
           THEN WriteStep(t, MapDelete(m, k), [abs EXCEPT ![k] = Absent],
                          [th[t] EXCEPT !.pc = "ret", !.pre = m[k],
                                        !.rv = m[k], !.rok = TRUE])
           ELSE WriteStep(t, m, abs,
                          [th[t] EXCEPT !.pc = "ret", !.pre = Absent,
                                        !.rv = Zero, !.rok = FALSE])

UpdateCall(t) ==
    \E k \in Keys, d \in Values, f \in Fns :
        Begin(t, [IdleRec EXCEPT !.op = "Update", !.k = k, !.v = d, !.fn = f,
                                 !.h = Route(k), !.pc = "lock"])

\* an Update that hands calculate the default whatever the map holds
UpdateInputDefault(m, k, defaultValue) == defaultValue

\* the value Update hands to calculate: the current one, else the default
UpdateInput(m, k, defaultValue) == IF Has(m, k) THEN m[k] ELSE defaultValue

\* an Update that returns the new value of a present key without storing it
UpdateBodyNoStore(t) ==
    /\ ~panicked
    /\ th[t].pc = "cs"
    /\ th[t].op = "Update"
    /\ LET m     == segment[th[t].h]
           k     == th[t].k
           value == Apply(th[t].fn, UpdateInput(m, k, th[t].v))
       IN  WriteStep(t, IF Has(m, k) THEN m ELSE MapPut(m, k, value),
                     IF Has(m, k) THEN abs ELSE [abs EXCEPT ![k] = value],
                     [th[t] EXCEPT !.pc = "ret", !.pre = Before(m, k),
                                   !.calls = @ + 1, !.rv = value,
                                   !.rok = ~Has(m, k)])

UpdateBody(t) ==
    /\ ~panicked
    /\ th[t].pc = "cs"
    /\ th[t].op = "Update"
    /\ LET m     == segment[th[t].h]
           k     == th[t].k
           value == Apply(th[t].fn, UpdateInput(m, k, th[t].v))
       IN  WriteStep(t, MapPut(m, k, value), [abs EXCEPT ![k] = value],
                     [th[t] EXCEPT !.pc = "ret", !.pre = Before(m, k),
                                   !.calls = @ + 1, !.rv = value,
                                   !.rok = ~Has(m, k)])

UpdateExistingCall(t) ==
    \E k \in Keys, f \in Fns :
        Begin(t, [IdleRec EXCEPT !.op = "UpdateExisting", !.k = k, !.fn = f,
                                 !.h = Route(k), !.pc = "lock"])

UpdateExistingBody(t) ==
    /\ ~panicked
    /\ th[t].pc = "cs"
    /\ th[t].op = "UpdateExisting"
    /\ LET m == segment[th[t].h]
           k == th[t].k
       IN  IF Has(m, k)
           THEN LET value == Apply(th[t].fn, m[k])
                IN  WriteStep(t, MapPut(m, k, value), [abs EXCEPT ![k] = value],
                              [th[t] EXCEPT !.pc = "ret", !.pre = m[k],
                                            !.calls = @ + 1, !.rv = value,
                                            !.rok = TRUE])
           ELSE WriteStep(t, m, abs,
                          [th[t] EXCEPT !.pc = "ret", !.pre = Absent,
                                        !.rv = Zero, !.rok = FALSE])

CalculateCall(t) ==
    \E k \in Keys, f \in Fns :
        Begin(t, [IdleRec EXCEPT !.op = "Calculate", !.k = k, !.fn = f,
                                 !.h = Route(k), !.pc = "lock"])

\* Calculate returns calculate(v) and stores nothing (nil is shown as Zero)
CalculateBody(t) ==
    /\ ~panicked
    /\ th[t].pc = "cs"
    /\ th[t].op = "Calculate"
    /\ LET m == segment[th[t].h]
           k == th[t].k
       IN  IF Has(m, k)
           THEN WriteStep(t, m, abs,
                          [th[t] EXCEPT !.pc = "ret", !.pre = m[k],
                                        !.calls = @ + 1,
                                        !.rv = Apply(th[t].fn, m[k]),
                                        !.rok = TRUE])
           ELSE WriteStep(t, m, abs,
                          [th[t] EXCEPT !.pc = "ret", !.pre = Absent,
                                        !.rv = Zero, !.rok = FALSE])

(***************************************************************************)
(* The whole-map operations: Len, Keys, Values, Range.  Each ranges over   *)
(* s.segment by index under the read lock of one segment at a time.        *)
(***************************************************************************)
\* the orders a range over a Go map may yield the keys of m in
Orders(m) ==
    {o \in [1..Cardinality(DOMAIN m) -> DOMAIN m] :
        \A i, j \in DOMAIN o : i # j => o[i] # o[j]}

\* for i := range s.segment: to the first segment, or past the loop
LoopStart(t, r) ==
    Begin(t, IF 0 \in DOMAIN segment
             THEN [r EXCEPT !.h = 0, !.pc = "rlock"]
             ELSE [r EXCEPT !.pc = "ret"])

\* len(s.segment[0]), the capacity Keys and Values allocate with: segment 0
\* is read before any lock is taken (the number read only sizes the
\* allocation), and with no segment the index panics
AllocStart(t, r) ==
    Begin(t, IF 0 \in DOMAIN segment
             THEN [r EXCEPT !.h = 0, !.pc = "rlock"]
             ELSE [r EXCEPT !.pc = "panic"])

\* a loop that a false answer of run does not stop: on to the next segment
LoopNextNoStop(r) ==
    IF r.h + 1 \notin DOMAIN segment
    THEN [r EXCEPT !.pc = "ret"]
    ELSE [r EXCEPT !.pc = "rlock", !.h = @ + 1]

\* thread r, leaving segment r.h of the loop: on to the next segment, or
\* out of the loop when there is none or the loop was stopped
LoopNext(r) ==
    IF r.stop \/ r.h + 1 \notin DOMAIN segment
    THEN [r EXCEPT !.pc = "ret"]
    ELSE [r EXCEPT !.pc = "rlock", !.h = @ + 1]

\* a Len that keeps the length of the segment it is in, without adding
LenBodyNoSum(t) ==
    /\ ~panicked
    /\ th[t].pc = "rcs"
    /\ th[t].op = "Len"
    /\ ReadStep(t, LoopNext([th[t] EXCEPT
                               !.rv = Cardinality(DOMAIN segment[th[t].h])]))

LenCall(t) == LoopStart(t, [IdleRec EXCEPT !.op = "Len"])

\* _len = _len + len(s.segment[i])
LenBody(t) ==
    /\ ~panicked
    /\ th[t].pc = "rcs"
    /\ th[t].op = "Len"
    /\ ReadStep(t, LoopNext([th[t] EXCEPT
                               !.rv = @ + Cardinality(DOMAIN segment[th[t].h])]))

KeysCall(t) == AllocStart(t, [IdleRec EXCEPT !.op = "Keys"])

\* a Keys that puts the keys of each segment in front of those it has
KeysBodyPrepend(t) ==
    /\ ~panicked
    /\ th[t].pc = "rcs"
    /\ th[t].op = "Keys"
    /\ \E o \in Orders(segment[th[t].h]) :
          ReadStep(t, LoopNext([th[t] EXCEPT !.rseq = o \o @]))

\* keys = append(keys, k) for k := range s.segment[i]
KeysBody(t) ==
    /\ ~panicked
    /\ th[t].pc = "rcs"
    /\ th[t].op = "Keys"
    /\ \E o \in Orders(segment[th[t].h]) :
          ReadStep(t, LoopNext([th[t] EXCEPT !.rseq = @ \o o]))

ValuesCall(t) == AllocStart(t, [IdleRec EXCEPT !.op = "Values"])

\* values = append(values, v) for _, v := range s.segment[i]
ValuesBody(t) ==
    /\ ~panicked
    /\ th[t].pc = "rcs"
    /\ th[t].op = "Values"
    /\ \E o \in Orders(segment[th[t].h]) :
          ReadStep(t, LoopNext([th[t] EXCEPT
                                  !.rseq = @ \o [i \in DOMAIN o |->
                                                    segment[th[t].h][o[i]]]]))

RangeCall(t) == LoopStart(t, [IdleRec EXCEPT !.op = "Range"])

\* for k, v := range s.segment[i]: the entries to visit; an empty segment
\* is left at once
RangeEnter(t) ==
    /\ ~panicked
    /\ th[t].pc = "rcs"
    /\ th[t].op = "Range"
    /\ IF DOMAIN segment[th[t].h] = {}
       THEN ReadStep(t, LoopNext(th[t]))
       ELSE /\ th' = [th EXCEPT ![t].todo = DOMAIN segment[th[t].h],
                                ![t].pc = "visit"]
            /\ UNCHANGED << mapVars, panicked, abs, routers, routed >>

\* run(k, v) on one more entry; rseq lists the keys visited and run answers
\* ok; s.rUnlock(i) after the last entry and when run answers false
RangeVisit(t) ==
    /\ ~panicked
    /\ th[t].pc = "visit"
    /\ \E k \in th[t].todo, ok \in BOOLEAN :
          LET r == [th[t] EXCEPT !.todo = @ \ {k}, !.rseq = Append(@, k),
                                 !.calls = @ + 1, !.stop = ~ok]
          IN  IF ~ok \/ th[t].todo = {k}
              THEN ReadStep(t, LoopNext(r))
              ELSE /\ th' = [th EXCEPT ![t] = r]
                   /\ UNCHANGED << mapVars, panicked, abs, routers, routed >>

(***************************************************************************)
(* The specifications.                                                     *)
(***************************************************************************)
\* the public operations
Call(t) ==
    \/ SetCall(t)
    \/ GetCall(t)
    \/ DeleteCall(t)
    \/ DeleteConditionalCall(t)
    \/ GetOrSetCall(t)
    \/ GetAndDeleteCall(t)
    \/ UpdateCall(t)
    \/ UpdateExistingCall(t)
    \/ CalculateCall(t)
    \/ LenCall(t)
    \/ KeysCall(t)
    \/ ValuesCall(t)
    \/ RangeCall(t)

\* the steps of a thread inside an operation that wait for no other thread
Run(t) ==
    \/ Lock(t)
    \/ RLock(t)
    \/ Return(t)
    \/ SetBody(t)
    \/ GetBody(t)
    \/ DeleteBody(t)
    \/ DeleteConditionalBody(t)
    \/ GetOrSetGet(t)
    \/ GetOrSetBody(t)
    \/ GetAndDeleteBody(t)
    \/ UpdateBody(t)
    \/ UpdateExistingBody(t)
    \/ CalculateBody(t)
    \/ LenBody(t)
    \/ KeysBody(t)
    \/ ValuesBody(t)
    \/ RangeEnter(t)
    \/ RangeVisit(t)

\* the steps that end a wait for a lock another thread held
Wake(t) ==
    \/ LockAcquire(t)
    \/ RWake(t)

\* any number of threads running any mix of the public operations
Next == \E t \in Threads : Call(t) \/ Run(t) \/ Wake(t)

Spec == Init /\ [][Next]_vars

\* one caller: every operation returns before the next one starts
SeqNext == Call(1) \/ Run(1)

SpecSeq == Init /\ [][SeqNext]_vars

(***************************************************************************)
(* One caller and the operations Set, Get and Delete alone.                *)
(***************************************************************************)
SetGetDeleteNext ==
    \/ SetCall(1)
    \/ GetCall(1)
    \/ DeleteCall(1)
    \/ Lock(1)
    \/ SetBody(1)
    \/ GetBody(1)
    \/ DeleteBody(1)
    \/ Return(1)

SpecSetGetDelete == Init /\ [][SetGetDeleteNext]_vars

(***************************************************************************)
(* TestConcurrencyAccess: every thread t performs one Set, on the key t;   *)
(* when all of them have returned, the keys are read back with Get.        *)
(***************************************************************************)
\* go func(i int) { m.Set(i, v) }: thread t has not called Set yet
SetOnceCall(t) ==
    /\ abs[t] = Absent
    /\ \E v \in Values :
          Begin(t, [IdleRec EXCEPT !.op = "Set", !.k = t, !.v = v,
                                   !.h = Route(t), !.pc = "lock"])

\* wg.Wait(): every thread has returned from its Set
AllSet == \A u \in Threads : abs[u] # Absent /\ th[u].op # "Set"

\* m.Get(i) after wg.Wait()
VerifyCall(t) ==
    /\ AllSet
    /\ \E k \in Threads :
          Begin(t, [IdleRec EXCEPT !.op = "Get", !.k = k,
                                   !.h = Route(k), !.pc = "rlock"])

SetNext ==
    \E t \in Threads :
        \/ SetOnceCall(t)
        \/ VerifyCall(t)
        \/ Lock(t)
        \/ SetBody(t)
        \/ GetBody(t)
        \/ Return(t)

SpecSet == Init /\ [][SetNext]_vars

(***************************************************************************)
(* Every thread calls GetOrSet once, all for the same key, absent at the   *)
(* start; the supplier of thread t returns t, and no thread returns to     *)
(* call anything else.                                                     *)
(***************************************************************************)
GetOrSetOnceCall(t) ==
    \E k \in Keys :
        /\ \A u \in Threads : th[u].op = "GetOrSet" => th[u].k = k
        /\ Begin(t, [IdleRec EXCEPT !.op = "GetOrSet", !.k = k, !.v = t,
                                    !.h = Route(k), !.pc = "rlock"])

GetOrSetNext ==
    \E t \in Threads :
        \/ GetOrSetOnceCall(t)
        \/ GetOrSetGet(t)
        \/ Lock(t)
        \/ LockAcquire(t)
        \/ RWake(t)
        \/ GetOrSetBody(t)

SpecGetOrSet == Init /\ [][GetOrSetNext]_vars

(***************************************************************************)
(* Delete next to concurrent Set and Get.                                  *)
(***************************************************************************)
DeleteNext ==
    \E t \in Threads :
        \/ SetCall(t)
        \/ GetCall(t)
        \/ DeleteCall(t)
        \/ Lock(t)
        \/ LockAcquire(t)
        \/ RWake(t)
        \/ SetBody(t)
        \/ GetBody(t)
        \/ DeleteBody(t)
        \/ Return(t)

SpecDelete == Init /\ [][DeleteNext]_vars

(***************************************************************************)
(* One key is stored once, by one Set; when that Set has returned, every   *)
(* thread calls GetAndDelete once, all for that key, and stays at its      *)
(* return.                                                                 *)
(***************************************************************************)
\* m.Set(k, v) on the empty map, by any one thread
SetFirstCall(t) ==
    /\ \A k \in KeyDomain : abs[k] = Absent
    /\ \A u \in Threads : th[u].pc = "idle"
    /\ SetCall(t)

ReturnFromSet(t) == th[t].op = "Set" /\ Return(t)

GetAndDeleteOnceCall(t) ==
    \E k \in Keys :
        /\ \A u \in Threads : th[u].op # "Set"
        /\ abs[k] # Absent \/ \E u \in Threads : th[u].op = "GetAndDelete" /\ th[u].k = k
        /\ Begin(t, [IdleRec EXCEPT !.op = "GetAndDelete", !.k = k,
                                    !.h = Route(k), !.pc = "lock"])

GetAndDeleteNext ==
    \E t \in Threads :
        \/ SetFirstCall(t)
        \/ SetBody(t)
        \/ ReturnFromSet(t)
        \/ GetAndDeleteOnceCall(t)
        \/ Lock(t)
        \/ GetAndDeleteBody(t)

SpecGetAndDelete == Init /\ [][GetAndDeleteNext]_vars

(***************************************************************************)
(* Every thread calls Update once, all with the same key, absent at the    *)
(* start, the same default and the same function, and stays at its return. *)
(***************************************************************************)
UpdateOnceCall(t) ==
    \E k \in Keys, d \in Values, f \in Fns :
        /\ \A u \in Threads :
              th[u].op = "Update" => (th[u].k = k /\ th[u].v = d /\ th[u].fn = f)
        /\ Begin(t, [IdleRec EXCEPT !.op = "Update", !.k = k, !.v = d, !.fn = f,
                                    !.h = Route(k), !.pc = "lock"])

UpdateNext ==
    \E t \in Threads :
        \/ UpdateOnceCall(t)
        \/ Lock(t)
        \/ UpdateBody(t)

SpecUpdate == Init /\ [][UpdateNext]_vars

(***************************************************************************)
(* Maps of every segment count from 1 to MaxRouteSegments, which takes in  *)
(* a count that is not a power of two, under any mix of the operations     *)
(* that store an entry (Set, GetOrSet, Update, UpdateExisting) and of      *)
(* Delete, which takes entries out of several segments.                    *)
(***************************************************************************)
RouteSegmentCounts == 1..MaxRouteSegments

RouteInit ==
    /\ \E n \in RouteSegmentCounts : MapInit(n)
    /\ RouterInit

RouteNext ==
    \E t \in Threads :
        \/ SetCall(t)
        \/ DeleteCall(t)
        \/ GetOrSetCall(t)
        \/ UpdateCall(t)
        \/ UpdateExistingCall(t)
        \/ Lock(t)
        \/ LockAcquire(t)
        \/ RWake(t)
        \/ Return(t)
        \/ SetBody(t)
        \/ DeleteBody(t)
        \/ GetOrSetGet(t)
        \/ GetOrSetBody(t)
        \/ UpdateBody(t)
        \/ UpdateExistingBody(t)

SpecRoute == RouteInit /\ [][RouteNext]_vars

(***************************************************************************)
(* User functions that call back into the map.  The function handed to an  *)
(* operation calls s.Set(ck, MaxValue) each time it runs and then answers  *)
(* as before (calculate increments); the operation goes on when the call   *)
(* has returned.                                                           *)
(***************************************************************************)
\* the records of a call r whose user function calls s.Set(ck, MaxValue)
WithCallback(r) ==
    {[r EXCEPT !.cb = [NoCallback EXCEPT !.k = ck, !.v = MaxValue]] : ck \in Keys}

DeleteConditionalCallbackCall(t) ==
    \E k \in Keys, p \in Preds :
        \E r \in WithCallback([IdleRec EXCEPT !.op = "DeleteConditional", !.k = k,
                                              !.pred = p, !.h = Route(k),
                                              !.pc = "lock"]) : Begin(t, r)

GetOrSetCallbackCall(t) ==
    \E k \in Keys, v \in Values :
        \E r \in WithCallback([IdleRec EXCEPT !.op = "GetOrSet", !.k = k, !.v = v,
                                              !.h = Route(k), !.pc = "rlock"]) :
            Begin(t, r)

UpdateCallbackCall(t) ==
    \E k \in Keys, d \in Values :
        \E r \in WithCallback([IdleRec EXCEPT !.op = "Update", !.k = k, !.v = d,
                                              !.fn = "inc", !.h = Route(k),
                                              !.pc = "lock"]) : Begin(t, r)

UpdateExistingCallbackCall(t) ==
    \E k \in Keys :
        \E r \in WithCallback([IdleRec EXCEPT !.op = "UpdateExisting", !.k = k,
                                              !.fn = "inc", !.h = Route(k),
                                              !.pc = "lock"]) : Begin(t, r)

CalculateCallbackCall(t) ==
    \E k \in Keys :
        \E r \in WithCallback([IdleRec EXCEPT !.op = "Calculate", !.k = k,
                                              !.fn = "inc", !.h = Route(k),
                                              !.pc = "lock"]) : Begin(t, r)

RangeCallbackCall(t) ==
    \E r \in WithCallback([IdleRec EXCEPT !.op = "Range"]) : LoopStart(t, r)

\* thread t stands where the operation calls its user function
AtUserFunction(t) ==
    LET r == th[t]
    IN  \/ r.pc = "cs" /\ r.op = "Update"
        \/ r.pc = "cs" /\ r.op = "GetOrSet" /\ ~Has(segment[r.h], r.k)
        \/ /\ r.pc = "cs"
           /\ r.op \in {"UpdateExisting", "Calculate", "DeleteConditional"}
           /\ Has(segment[r.h], r.k)
        \/ r.pc = "visit" /\ r.op = "Range"

\* the user function of thread t is running and inside its call of s.Set
InCallback(t) == th[t].cb.pc # "none"

\* the user function is about to run and has its call of s.Set to make
CallbackDue(t) ==
    /\ AtUserFunction(t)
    /\ th[t].cb.k # 0
    /\ th[t].cb.pc = "none"
    /\ th[t].cb.n = th[t].calls

\* the user function starts and calls s.Set(ck, cv): h := s.hash.Get(ck)
CallbackCall(t) ==
    /\ ~panicked
    /\ CallbackDue(t)
    /\ th' = [th EXCEPT ![t].cb.h = Route(th[t].cb.k), ![t].cb.pc = "lock"]
    /\ UNCHANGED << mapVars, panicked, abs, routers, routed >>

\* a lock(h) that lets in the thread that holds the lock already
CallbackLockReentrant(t) ==
    /\ ~panicked
    /\ th[t].cb.pc = "lock"
    /\ mutex[th[t].cb.h].w \in {0, t}
    /\ mutex' = [mutex EXCEPT ![th[t].cb.h].w = t]
    /\ th' = [th EXCEPT ![t].cb.pc =
                 IF mutex[th[t].cb.h].readers \subseteq {t} THEN "cs" ELSE "lockwait"]
    /\ UNCHANGED << hash, segment, segmented, panicked, abs, routers, routed >>

\* s.lock(h) of the inner Set
CallbackLock(t) ==
    /\ ~panicked
    /\ th[t].cb.pc = "lock"
    /\ mutex[th[t].cb.h].w = 0
    /\ mutex' = [mutex EXCEPT ![th[t].cb.h] = LockTry(@, t)]
    /\ th' = [th EXCEPT ![t].cb.pc =
                 IF LockPc(mutex[th[t].cb.h]) = "cs" THEN "cs" ELSE "lockwait"]
    /\ UNCHANGED << hash, segment, segmented, panicked, abs, routers, routed >>

\* the inner Set gets the lock when the last reader has left
CallbackLockAcquire(t) ==
    /\ ~panicked
    /\ th[t].cb.pc = "lockwait"
    /\ mutex[th[t].cb.h].readers = {}
    /\ th' = [th EXCEPT ![t].cb.pc = "cs"]
    /\ UNCHANGED << mapVars, panicked, abs, routers, routed >>

\* s.segment[h][ck] = cv, s.unlock(h), and the inner Set returns
CallbackSet(t) ==
    /\ ~panicked
    /\ th[t].cb.pc = "cs"
    /\ segment' = [segment EXCEPT ![th[t].cb.h] = MapPut(@, th[t].cb.k, th[t].cb.v)]
    /\ mutex' = [mutex EXCEPT ![th[t].cb.h] = ReleaseWrite(@)]
    /\ abs' = [abs EXCEPT ![th[t].cb.k] = th[t].cb.v]
    /\ th' = [th EXCEPT ![t].cb.pc = "none", ![t].cb.n = @ + 1]
    /\ UNCHANGED << hash, segmented, panicked, routers, routed >>

\* the operation of thread t is not held up by its user function
Resumes(t) == ~InCallback(t) /\ ~CallbackDue(t)

CallbackNext ==
    \E t \in Threads :
        \/ SetCall(t)
        \/ DeleteConditionalCallbackCall(t)
        \/ GetOrSetCallbackCall(t)
        \/ UpdateCallbackCall(t)
        \/ UpdateExistingCallbackCall(t)
        \/ CalculateCallbackCall(t)
        \/ RangeCallbackCall(t)
        \/ Lock(t)
        \/ LockAcquire(t)
        \/ RLock(t)
        \/ RWake(t)
        \/ Return(t)
        \/ CallbackCall(t)
        \/ CallbackLock(t)
        \/ CallbackLockAcquire(t)
        \/ CallbackSet(t)
        \/ SetBody(t)
        \/ GetOrSetGet(t)
        \/ RangeEnter(t)
        \/ Resumes(t) /\ DeleteConditionalBody(t)
        \/ Resumes(t) /\ GetOrSetBody(t)
        \/ Resumes(t) /\ UpdateBody(t)
        \/ Resumes(t) /\ UpdateExistingBody(t)
        \/ Resumes(t) /\ CalculateBody(t)
        \/ Resumes(t) /\ RangeVisit(t)

SpecCallback == Init /\ [][CallbackNext]_vars

(***************************************************************************)
(* The locks alone: NumLockThreads threads, each calling Set or Get.       *)
(***************************************************************************)
LockThreads == 1..NumLockThreads

LocksInit ==
    /\ \E n \in SegmentCounts :
          LET m == NewSegmentedMap(n)
          IN  /\ hash = m.hash
              /\ segment = m.segment
              /\ mutex = m.mutex
              /\ segmented = m.segmented
    /\ th = [t \in LockThreads |-> IdleRec]
    /\ panicked = FALSE
    /\ abs = [k \in KeyDomain |-> Absent]
    /\ RouterInit

LocksNext ==
    \E t \in LockThreads :
        \/ SetCall(t)
        \/ GetCall(t)
        \/ Lock(t)
        \/ LockAcquire(t)
        \/ RWake(t)
        \/ SetBody(t)
        \/ GetBody(t)
        \/ Return(t)

SpecLocks == LocksInit /\ [][LocksNext]_vars

(***************************************************************************)
(* The router alone: two routers built independently, and keys of every    *)
(* kind handed to Hash.Get.                                                *)
(***************************************************************************)
RouterSegmentCounts == (0..MaxRouterSegments) \cup {8}

\* r = NewHash[T](n)
NewRouter(r) ==
    /\ \E n \in RouterSegmentCounts :
          routers' = [routers EXCEPT ![r] = NewHash(n)]
    /\ routed' = [routed EXCEPT ![r] = NoCall]
    /\ UNCHANGED << mapVars, th, panicked, abs >>

\* r.Get(k)
RouteKey(r) ==
    /\ routers[r] # NoRouter
    /\ \E k \in RouterKeys :
          LET got == HashGet(routers[r], k)
          IN  routed' = [routed EXCEPT ![r] =
                           [key |-> k, panic |-> got.panic, index |-> got.index]]
    /\ UNCHANGED << mapVars, th, panicked, abs, routers >>

HashNext == \E r \in {1, 2} : NewRouter(r) \/ RouteKey(r)

\* the map plays no part: NewMap()
HashInit == MapInit(1) /\ RouterInit

SpecHash == HashInit /\ [][HashNext]_vars

(***************************************************************************)
(* Properties.  The results of an operation are read off the thread record *)
(* while the thread is at "ret": rv and rok are the two results, calls the *)
(* number of times the user function ran, pre what the critical section    *)
(* found for the key, hist the history of the key at the time of a Get.    *)
(***************************************************************************)
Returned(t, op) == th[t].pc = "ret" /\ th[t].op = op

\* C1: after any sequence of Set and Delete calls by one caller, Get(k)
\* returns (v, true) with v the value of the most recent Set(k, v) that no
\* later Delete of k followed, and (zero, false) when there is none.
C1_GetReturnsLastSet ==
    \A t \in Threads :
        Returned(t, "Get") =>
            IF th[t].hist # Absent
            THEN th[t].rok /\ th[t].rv = th[t].hist
            ELSE ~th[t].rok /\ th[t].rv = Zero

\* a Get of a segmented map returned a value other than zero while the other
\* keys are absent
C1_Witness ==
    \E t \in Threads :
        /\ Returned(t, "Get")
        /\ th[t].rok
        /\ th[t].rv # Zero
        /\ segmented
        /\ \A k \in Keys \ {th[t].k} : abs[k] = Absent

\* C2: when every thread has done its Set on its own key, concurrently with
\* the others, a Get of each of the keys finds it, with the value its thread
\* wrote: no write is lost.
C2_NoSetLost ==
    \A t \in Threads :
        Returned(t, "Get") =>
            /\ th[t].rok
            /\ th[t].hist # Absent
            /\ th[t].rv = th[t].hist

\* every key was written into the same segment, and a Get returned one
C2_Witness ==
    /\ AllSet
    /\ \E i \in DOMAIN segment : Cardinality(DOMAIN segment[i]) = NumThreads
    /\ \E t \in Threads : Returned(t, "Get") /\ th[t].rok

\* the threads whose supplier has run
SupplierCallers == {t \in Threads : th[t].calls > 0}

\* C3: of the threads that call GetOrSet concurrently for one key, absent at
\* the start, the supplier of exactly one runs, once; that thread gets
\* created = true, every other one created = false, and all of them the value
\* that supplier produced.
C3_GetOrSetOnce ==
    /\ \A t \in Threads : th[t].calls <= 1
    /\ Cardinality(SupplierCallers) <= 1
    /\ \A t \in Threads :
          Returned(t, "GetOrSet") =>
              /\ SupplierCallers # {}
              /\ \A u \in SupplierCallers :
                    /\ th[t].rv = th[u].v
                    /\ th[t].rok <=> (t = u)
    /\ (\A t \in Threads : Returned(t, "GetOrSet")) =>
          Cardinality({t \in Threads : th[t].rok}) = 1

\* one thread has created the value while another, which found the key
\* absent, is on its way to the write lock
C3_Witness ==
    \E t, u \in Threads :
        /\ Returned(t, "GetOrSet")
        /\ th[t].rok
        /\ th[u].op = "GetOrSet"
        /\ th[u].pc = "lock"
        /\ th[u].pre = Absent

\* C4: Update(k, d, fn) runs fn exactly once, on the current value of k when
\* k is present and on d when it is not; it stores and returns the result,
\* with created = true exactly when k was absent, and k is present after.
C4_Update ==
    \A t \in Threads :
        Returned(t, "Update") =>
            /\ th[t].calls = 1
            /\ th[t].rv = Apply(th[t].fn, IF th[t].pre # Absent THEN th[t].pre
                                          ELSE th[t].v)
            /\ th[t].rok <=> (th[t].pre = Absent)
            /\ Has(segment[th[t].h], th[t].k)
            /\ segment[th[t].h][th[t].k] = th[t].rv

\* an Update of a present key whose value differs from the default
C4_Witness ==
    \E t \in Threads :
        /\ Returned(t, "Update")
        /\ th[t].fn = "inc"
        /\ th[t].pre # Absent
        /\ th[t].pre # th[t].v

\* the segment locks thread t holds: the write lock once Lock has returned,
\* the read lock once RLock has let it in
Holds(t) ==
    {i \in DOMAIN mutex :
        \/ mutex[i].w = t /\ ~(th[t].pc = "lockwait" /\ th[t].h = i)
        \/ t \in mutex[i].readers}

\* thread t is about to acquire, or waits for, a segment lock
Waits(t) ==
    \/ th[t].pc \in {"lock", "lockwait", "rlock"}
    \/ th[t].pc = "rblocked" /\ t \notin mutex[th[t].h].readers

\* a step of a thread that is inside an operation
Progress == \E t \in Threads : Run(t) \/ Wake(t)

\* C5: no thread holds more than one segment lock, no thread waits for a
\* segment lock while it holds one, and so there is no deadlock: as long as
\* a thread is inside an operation, a thread inside an operation can step.
C5_NoDeadlock ==
    /\ \A t \in Threads : Cardinality(Holds(t)) <= 1
    /\ \A t \in Threads : Waits(t) => Holds(t) = {}
    /\ (~panicked /\ \E t \in Threads : th[t].pc # "idle") => ENABLED Progress

\* a Delete over two segments holds the lock of its second segment, and
\* another thread waits for that lock
C5_Witness ==
    \E t, u \in Threads :
        /\ th[t].op = "Delete"
        /\ th[t].pc = "cs"
        /\ th[t].pend = {}
        /\ Cardinality(HashesOf(th[t].keys)) = 2
        /\ th[u].pc = "lock"
        /\ th[u].h = th[t].h

\* C6: Hash.Get never panics on a key of a supported kind (string, the
\* signed and unsigned integer kinds, the float kinds).
C6_RouterNeverPanics ==
    \A r \in {1, 2} :
        routed[r].key.kind \in HashableKinds => ~routed[r].panic

\* C7: a map built with segment count 0 or 1 has exactly one segment, every
\* index the router returns addresses an allocated segment, and every
\* operation works (none panics).
C7_DegenerateCounts ==
    /\ hash.segments <= 1 => (DOMAIN segment = {0} /\ DOMAIN mutex = {0})
    /\ \A k \in Keys : Route(k) \in DOMAIN segment
    /\ ~panicked

\* C8: whenever Hash.Get returns, the index is the hash of the key under the
\* mask 2^floor(log2(max(segments, 1))) - 1, the same on every router built
\* with that segment count, and it lies in [0, segments), for every segment
\* count.
C8_RouteInRange ==
    \A r \in {1, 2} :
        (routed[r].key.kind # "none" /\ ~routed[r].panic) =>
            /\ routers[r].mask =
                  Pow2(FloorLog2(IF routers[r].segments > 1
                                 THEN routers[r].segments ELSE 1)) - 1
            /\ routed[r].index = BitAnd(Sum32(routed[r].key).lo, routers[r].mask)
            /\ routed[r].index >= 0
            /\ routed[r].index < routers[r].segments
            /\ \A q \in {1, 2} :
                  (/\ routers[q].segments = routers[r].segments
                   /\ routed[q].key.kind = routed[r].key.kind
                   /\ routed[q].key.val = routed[r].key.val
                   /\ ~routed[q].panic) =>
                      routed[q].index = routed[r].index

\* C9: DeleteConditional returns existing = true whenever the key was
\* present, whatever the predicate answered, and false when it was absent.
C9_ExistingReported ==
    \A t \in Threads :
        Returned(t, "DeleteConditional") =>
            (th[t].rok <=> (th[t].pre # Absent))

\* C10: DeleteConditional(k, p) removes k exactly when k is present and p
\* holds of its value; p runs once when k is present and not at all when it
\* is absent; every other entry of the map is left as it was.
C10_DeleteConditional ==
    [][\A t \in Threads :
          (/\ th[t].op = "DeleteConditional"
           /\ th[t].pc = "cs"
           /\ th'[t].pc = "ret") =>
              LET h       == th[t].h
                  k       == th[t].k
                  present == Has(segment[h], k)
                  removes == present /\ segment[h][k] \in th[t].pred
              IN  /\ th'[t].calls = IF present THEN 1 ELSE 0
                  /\ DOMAIN segment' = DOMAIN segment
                  /\ Has(segment'[h], k) <=> (present /\ ~removes)
                  /\ \A i \in DOMAIN segment, x \in Keys :
                        (i # h \/ x # k \/ ~removes) =>
                            Before(segment'[i], x) = Before(segment[i], x)
      ]_vars

\* the predicate held of the value of a present key, which is gone, and
\* another entry of the same segment is still there
C10_Witness ==
    \E t \in Threads :
        /\ Returned(t, "DeleteConditional")
        /\ th[t].calls = 1
        /\ th[t].pre # Absent
        /\ th[t].pre \in th[t].pred
        /\ ~Has(segment[th[t].h], th[t].k)
        /\ Cardinality(DOMAIN segment[th[t].h]) >= 1


\* the keys present according to the history of the calls
LiveKeys == {k \in KeyDomain : abs[k] # Absent}

\* C11: a Len() called while no other operation is in progress returns the
\* number of distinct keys present: those stored by Set, GetOrSet or Update
\* and not removed since by Delete, DeleteConditional or GetAndDelete.
C11_LenCountsLiveKeys ==
    \A t \in Threads :
        Returned(t, "Len") => th[t].rv = Cardinality(LiveKeys)

\* Len returned 2 on a map that holds one key in each of two segments
C11_Witness ==
    \E t \in Threads :
        /\ Returned(t, "Len")
        /\ th[t].rv = 2
        /\ \A i \in DOMAIN segment : Cardinality(DOMAIN segment[i]) = 1


\* the one-segment map the history of the calls amounts to
Unsegmented == [k \in LiveKeys |-> abs[k]]

\* the key/value pairs of a Go map, and of all the segments together
PairsOf(m) == {<< k, m[k] >> : k \in DOMAIN m}
Pairs == UNION {PairsOf(segment[i]) : i \in DOMAIN segment}

\* thread record r is in a single-key operation
SingleKey(r) ==
    \/ r.op \in {"Set", "Get", "DeleteConditional", "GetOrSet", "GetAndDelete",
                 "Update", "UpdateExisting", "Calculate"}
    \/ r.op = "Delete" /\ Len(r.keys) = 1

\* what the single-key operation of thread record r returns from, and leaves
\* in, the one-segment map m: [m, rv, rok]
OnOneSegment(r, m) ==
    LET k   == IF r.op = "Delete" THEN r.keys[1] ELSE r.k
        has == k \in DOMAIN m
    IN  CASE r.op = "Set" -> [m |-> MapPut(m, k, r.v), rv |-> Zero, rok |-> FALSE]
          [] r.op = "Get" ->
                [m |-> m, rv |-> IF has THEN m[k] ELSE Zero, rok |-> has]
          [] r.op = "Delete" -> [m |-> MapDelete(m, k), rv |-> Zero, rok |-> FALSE]
          [] r.op = "DeleteConditional" ->
                [m   |-> IF has /\ m[k] \in r.pred THEN MapDelete(m, k) ELSE m,
                 rv  |-> IF has THEN m[k] ELSE Zero,
                 rok |-> has /\ DeleteConditionalExisting]
          [] r.op = "GetOrSet" ->
                [m   |-> IF has THEN m ELSE MapPut(m, k, r.v),
                 rv  |-> IF has THEN m[k] ELSE r.v,
                 rok |-> ~has]
          [] r.op = "GetAndDelete" ->
                [m |-> MapDelete(m, k), rv |-> IF has THEN m[k] ELSE Zero, rok |-> has]
          [] r.op = "Update" ->
                [m   |-> MapPut(m, k, Apply(r.fn, IF has THEN m[k] ELSE r.v)),
                 rv  |-> Apply(r.fn, IF has THEN m[k] ELSE r.v),
                 rok |-> ~has]
          [] r.op = "UpdateExisting" ->
                [m   |-> IF has THEN MapPut(m, k, Apply(r.fn, m[k])) ELSE m,
                 rv  |-> IF has THEN Apply(r.fn, m[k]) ELSE Zero,
                 rok |-> has]
          [] r.op = "Calculate" ->
                [m |-> m, rv |-> IF has THEN Apply(r.fn, m[k]) ELSE Zero, rok |-> has]

\* C12: whatever the segment count, every single-key operation returns what
\* it returns on the one-segment map with the same history of calls, and
\* leaves the same set of key/value pairs; so a map with one segment and a
\* map with two or more agree call by call.
C12_SegmentCountEquivalence ==
    [][/\ Pairs' = PairsOf(Unsegmented')
       /\ \A t \in Threads :
             (/\ SingleKey(th[t])
              /\ th[t].pc \in {"cs", "rcs"}
              /\ th'[t].pc = "ret") =>
                 LET one == OnOneSegment(th[t], Unsegmented)
                 IN  /\ th'[t].rv = one.rv
                     /\ th'[t].rok = one.rok
                     /\ Pairs' = PairsOf(one.m)
      ]_vars

\* GetAndDelete returned the value of a key stored in segment 1 of a
\* segmented map, segment 0 holding an entry too
C12_Witness ==
    \E t \in Threads :
        /\ Returned(t, "GetAndDelete")
        /\ th[t].rok
        /\ segmented
        /\ th[t].h = 1
        /\ segment[0] # EmptyMap


\* C13: a Set or a Get on a key of segment j depends on the lock of segment j
\* alone: with that lock available the caller takes it, and with it held
\* completes, whatever threads hold or wait for the locks of the other
\* segments.
C13_OtherSegmentsNeverBlock ==
    \A t \in LockThreads :
        ~panicked =>
            /\ \A k \in Keys :
                  (/\ th[t].pc = "idle"
                   /\ Route(k) \in DOMAIN mutex
                   /\ mutex[Route(k)].w = 0) =>
                      /\ ENABLED (GetCall(t) /\ th'[t].k = k /\ th'[t].pc = "rcs")
                      /\ mutex[Route(k)].readers = {} =>
                            ENABLED (SetCall(t) /\ th'[t].k = k /\ th'[t].pc = "cs")
            /\ (/\ th[t].pc = "lock"
                /\ mutex[th[t].h].w = 0
                /\ mutex[th[t].h].readers = {}) =>
                   ENABLED (Lock(t) /\ th'[t].pc = "cs")
            /\ (th[t].pc = "lockwait" /\ mutex[th[t].h].readers = {}) =>
                   ENABLED LockAcquire(t)
            /\ (th[t].pc = "rblocked" /\ mutex[th[t].h].w = 0) => ENABLED RWake(t)
            /\ th[t].pc = "cs" => ENABLED SetBody(t)
            /\ th[t].pc = "rcs" => ENABLED GetBody(t)

\* a thread is about to lock a free segment while a second thread holds the
\* write lock of another segment and a third waits for that lock
C13_Witness ==
    \E t, u, v \in LockThreads :
        /\ th[t].pc = "lock"
        /\ mutex[th[t].h] = FreeMutex
        /\ th[u].pc = "cs"
        /\ th[u].h # th[t].h
        /\ th[v].pc = "lock"
        /\ th[v].h = th[u].h


\* the listed keys of thread t's Delete that segment h owns
ListedAt(t, h) ==
    {th[t].keys[i] : i \in {j \in 1..Len(th[t].keys) : Route(th[t].keys[j]) = h}}

\* the keys listed in the call r
Listed(r) == {r.keys[i] : i \in 1..Len(r.keys)}

\* the segments the Delete r has locked, emptied of its keys and unlocked
Processed(r) ==
    IF r.pc = "ret" THEN HashesOf(r.keys)
    ELSE HashesOf(r.keys) \ (r.pend \cup {r.h})

\* C14: Delete locks each segment that owns a listed key once and no other
\* segment: the call starts at one owning segment with exactly the other
\* owning segments left to do, each step moves one segment from the ones to
\* do to the ones done, and the call returns when none is left.  It removes
\* all the listed keys of the segment in one critical section, during which
\* no other thread is inside that segment, and leaves everything else as it
\* was.  A listed key of a segment Delete is done with, and so every listed
\* key when Delete returns, is present only if a Set of another thread
\* stored it after Delete left the segment.
C14_DeletePerSegment ==
    [][\A t \in Threads :
          /\ (/\ th[t].pc = "idle"
              /\ th'[t].op = "Delete"
              /\ th'[t].pc # "panic") =>
                 IF HashesOf(th'[t].keys) = {}
                 THEN th'[t].pc = "ret"
                 ELSE /\ th'[t].pc \in {"lock", "lockwait", "cs"}
                      /\ th'[t].h \in HashesOf(th'[t].keys)
                      /\ th'[t].pend = HashesOf(th'[t].keys) \ {th'[t].h}
          /\ (th'[t].op = "Delete" /\ th'[t].pc # "panic") =>
                 \A k \in Listed(th'[t]) :
                     LET i == Route(k)
                     IN  (/\ i \in DOMAIN segment
                          /\ i \in Processed(th'[t])
                          /\ Has(segment'[i], k)) =>
                             \/ /\ th[t].op = "Delete"
                                /\ i \in Processed(th[t])
                                /\ Has(segment[i], k)
                             \/ \E u \in Threads \ {t} :
                                   /\ th[u].op = "Set"
                                   /\ th[u].k = k
                                   /\ th[u].pc = "cs"
                                   /\ th'[u].pc = "ret"
          /\ th[t].op = "Delete" =>
              /\ th[t].pc \in {"lock", "lockwait", "cs"} =>
                    /\ th[t].h \in HashesOf(th[t].keys)
                    /\ th[t].h \notin th[t].pend
                    /\ th[t].pend \subseteq HashesOf(th[t].keys)
                    /\ th'[t].keys = th[t].keys
              /\ th[t].pc \in {"lock", "lockwait"} =>
                    /\ th'[t].h = th[t].h
                    /\ th'[t].pend = th[t].pend
                    /\ th'[t].pc \in {"lock", "lockwait", "cs"}
              /\ th[t].pc = "cs" =>
                    \A u \in Threads \ {t} :
                        ~(th[u].h = th[t].h /\ th[u].pc \in {"cs", "rcs", "visit"})
              /\ (th[t].pc = "cs" /\ th'[t].pc # "cs") =>
                    LET h == th[t].h
                    IN  /\ \A x \in KeyDomain :
                              Before(segment'[h], x) =
                                 IF x \in ListedAt(t, h) THEN Absent
                                 ELSE Before(segment[h], x)
                        /\ \A i \in DOMAIN segment \ {h} : segment'[i] = segment[i]
                        /\ mutex'[h].w = 0
                        /\ IF th[t].pend = {}
                           THEN th'[t].pc = "ret"
                           ELSE /\ th'[t].pc = "lock"
                                /\ th'[t].h \in th[t].pend
                                /\ th'[t].pend = th[t].pend \ {th'[t].h}
      ]_vars

\* a Delete of keys of two segments has returned, having locked both, and a
\* listed key is present again: another thread stored it after Delete had
\* left its segment
C14_Witness ==
    \E t \in Threads :
        /\ Returned(t, "Delete")
        /\ Cardinality(HashesOf(th[t].keys)) = 2
        /\ \E k \in Listed(th[t]) : Has(segment[Route(k)], k)

\* the keys of a sequence
Elems(s) == {s[i] : i \in 1..Len(s)}

\* C15: Range goes through the segments in ascending index order and holds
\* the shared lock of the segment it is in and no other lock; once visit has
\* answered false it is not called again, and Range returns; Range returns
\* with no lock held; and when visit never answers false and nothing else
\* runs, every entry is visited exactly once.
C15_Range ==
    [][\A t \in Threads :
          /\ (th[t].pc = "idle" /\ th'[t].op = "Range" /\ th'[t].pc # "ret") =>
                th'[t].h = 0
          /\ th[t].op = "Range" =>
              /\ th[t].pc \in {"rcs", "visit"} =>
                    /\ t \in mutex[th[t].h].readers
                    /\ Holds(t) = {th[t].h}
              /\ th[t].pc \in {"rlock", "ret"} => Holds(t) = {}
              /\ th[t].stop => th[t].pc = "ret"
              /\ th[t].calls = Len(th[t].rseq)
              /\ \A i, j \in 1..Len(th[t].rseq) :
                    i < j => /\ th[t].rseq[i] # th[t].rseq[j]
                             /\ Route(th[t].rseq[i]) <= Route(th[t].rseq[j])
              /\ (th'[t].op = "Range" /\ th'[t].h # th[t].h) =>
                    th'[t].h = th[t].h + 1
              /\ (th[t].pc = "ret" /\ ~th[t].stop) => Elems(th[t].rseq) = LiveKeys
      ]_vars

\* visit answered false on the entry of segment 0, and Range returned
\* without a call for the entry of segment 1
C15_Witness ==
    \E t \in Threads :
        /\ Returned(t, "Range")
        /\ th[t].stop
        /\ th[t].calls = 1
        /\ th[t].h = 0
        /\ segmented
        /\ segment[1] # EmptyMap


\* the sequences that list the keys of segments i, i + 1, ... segment by
\* segment, each segment in any order
RECURSIVE KeysFrom(_)
KeysFrom(i) ==
    IF i \notin DOMAIN segment THEN {<< >>}
    ELSE {o \o rest : o \in Orders(segment[i]), rest \in KeysFrom(i + 1)}

\* the same for the values, one per entry
RECURSIVE ValuesFrom(_)
ValuesFrom(i) ==
    IF i \notin DOMAIN segment THEN {<< >>}
    ELSE {[j \in DOMAIN o |-> segment[i][o[j]]] \o rest :
             o \in Orders(segment[i]), rest \in ValuesFrom(i + 1)}

\* C16: called while nothing else runs, Keys() returns every present key
\* exactly once and Values() one value per entry, the items of segment 0
\* first, then those of segment 1, and so on.
C16_KeysValuesBySegment ==
    \A t \in Threads :
        /\ Returned(t, "Keys") =>
              /\ th[t].rseq \in KeysFrom(0)
              /\ Elems(th[t].rseq) = LiveKeys
              /\ Len(th[t].rseq) = Cardinality(LiveKeys)
              /\ \A i, j \in 1..Len(th[t].rseq) :
                    i < j => Route(th[t].rseq[i]) <= Route(th[t].rseq[j])
        /\ Returned(t, "Values") =>
              /\ th[t].rseq \in ValuesFrom(0)
              /\ Len(th[t].rseq) = Cardinality(LiveKeys)

\* Keys returned the key of segment 0 before the key of segment 1
C16_Witness ==
    \E t \in Threads :
        /\ Returned(t, "Keys")
        /\ Len(th[t].rseq) = 2
        /\ Route(th[t].rseq[1]) = 0
        /\ Route(th[t].rseq[2]) = 1


\* the threads whose GetAndDelete returned (value, true)
Takers == {t \in Threads : Returned(t, "GetAndDelete") /\ th[t].rok}

\* C17: GetAndDelete(k) returns (value, true) and removes the entry when it
\* finds k, and (zero, false) when it does not; of the threads that call it
\* concurrently for a key stored once, exactly one returns (value, true) and
\* every other one (zero, false).
C17_GetAndDeleteOnce ==
    /\ Cardinality(Takers) <= 1
    /\ \A t \in Threads :
          Returned(t, "GetAndDelete") =>
              /\ th[t].rok <=> (th[t].pre # Absent)
              /\ th[t].rv = IF th[t].pre # Absent THEN th[t].pre ELSE Zero
              /\ ~Has(segment[th[t].h], th[t].k)
              /\ abs[th[t].k] = Absent
    /\ (\A t \in Threads : Returned(t, "GetAndDelete")) => Cardinality(Takers) = 1

\* every thread has returned, one of them with a value other than zero
C17_Witness ==
    /\ \A t \in Threads : Returned(t, "GetAndDelete")
    /\ \E t \in Takers : th[t].rv # Zero
    /\ \E t \in Threads : ~th[t].rok /\ th[t].rv = Zero


\* the threads inside a critical section of segment i: under its exclusive
\* lock, and under its shared lock
InsideExclusive(i) == {t \in Threads : th[t].pc = "cs" /\ th[t].h = i}
InsideShared(i) == {t \in Threads : th[t].pc \in {"rcs", "visit"} /\ th[t].h = i}

\* C18: for each segment, either no thread is inside a critical section, or
\* some threads are under its shared lock and none under its exclusive lock,
\* or one thread is under its exclusive lock and none under its shared lock;
\* and the storage of a segment changes only in a step of the thread that
\* holds its exclusive lock.
C18_ReadersOrOneWriter ==
    [][/\ \A i \in DOMAIN mutex :
             /\ Cardinality(InsideExclusive(i)) <= 1
             /\ InsideExclusive(i) # {} => InsideShared(i) = {}
             /\ \A t \in InsideExclusive(i) :
                   mutex[i].w = t /\ mutex[i].readers = {}
             /\ \A t \in InsideShared(i) : t \in mutex[i].readers
       /\ \A i \in DOMAIN segment :
             segment'[i] # segment[i] =>
                 \E t \in InsideExclusive(i) :
                     /\ th'[t] # th[t]
                     /\ \A u \in Threads \ {t} : th'[u] = th[u]
      ]_vars

\* two threads are under the shared lock of one segment
C18_Witness ==
    \E i \in DOMAIN mutex : Cardinality(InsideShared(i)) = 2


\* fn applied i times to x
RECURSIVE Iter(_, _, _)
Iter(fn, x, i) == IF i = 0 THEN x ELSE Apply(fn, Iter(fn, x, i - 1))

\* the threads whose Update has returned
Updated == {t \in Threads : Returned(t, "Update")}

\* the ways to number the returned calls 1..n, one number each
Stagings ==
    {s \in [Updated -> 1..Cardinality(Updated)] :
        \A t, u \in Updated : t # u => s[t] # s[u]}

\* C19: concurrent calls Update(k, d, fn) on one key, absent at the start,
\* do not interleave their read-modify-write steps: the n calls that have
\* returned can be numbered 1..n so that call i returned fn applied i times
\* to d and created = true exactly for i = 1, fn ran once in each, and the
\* value stored is fn applied n times to d; no update is lost.
C19_UpdatesNotLost ==
    Updated # {} =>
        \E s \in Stagings :
            \A t \in Updated :
                /\ th[t].rv = Iter(th[t].fn, th[t].v, s[t])
                /\ th[t].rok <=> (s[t] = 1)
                /\ th[t].calls = 1
                /\ (\A u \in Threads : th[u].pc # "cs") =>
                      Before(segment[th[t].h], th[t].k) =
                         Iter(th[t].fn, th[t].v, Cardinality(Updated))

\* every thread has returned from an incrementing Update of a key of a
\* segmented map, with NumThreads distinct results
C19_Witness ==
    /\ Updated = Threads
    /\ segmented
    /\ \A t \in Threads : th[t].fn = "inc"
    /\ Cardinality({th[t].rv : t \in Threads}) = NumThreads


\* the segments that hold key k
SegmentsOf(k) == {i \in DOMAIN segment : Has(segment[i], k)}

ExclusiveCallers ==
    {"GetOrSet", "Update", "UpdateExisting", "Calculate", "DeleteConditional"}

\* thread t, in state r, holds the lock its operation runs the user
\* function under: the shared lock of the current segment in Range, the
\* exclusive lock of the key's segment in the other operations
UnderLock(t, r, mx) ==
    IF r.op = "Range"
    THEN r.pc = "visit" /\ t \in mx[r.h].readers
    ELSE /\ r.op \in ExclusiveCallers
         /\ r.pc = "cs"
         /\ mx[r.h].w = t
         /\ mx[r.h].readers = {}

\* the user function of r is inside a Set on a key of the segment r holds
SameSegment(r) == r.cb.pc # "none" /\ r.cb.h = r.h

\* C21: a user function runs while its thread holds the exclusive lock of
\* the key's segment (GetOrSet, Update, UpdateExisting, Calculate,
\* DeleteConditional) or the shared lock of the current segment (Range);
\* so a Set the function calls on a key of that segment never gets the
\* lock, and from then on the outer operation stays where it is, inside
\* the function, and never returns.
C21_CallbackUnderLock ==
    [][\A t \in Threads :
          LET r  == th[t]
              r2 == th'[t]
          IN  /\ r2.cb.pc # "none" => UnderLock(t, r2, mutex')
              /\ SameSegment(r2) => r2.cb.pc \in {"lock", "lockwait"}
              /\ SameSegment(r) =>
                    /\ SameSegment(r2)
                    /\ r2.pc = r.pc
                    /\ r2.op = r.op
                    /\ r2.calls = r.calls
      ]_vars

\* two threads are stuck for good in a segmented map: one inside the visit
\* function of Range, one inside the function of an exclusive operation,
\* each in a Set on a key of the segment it holds
C21_Witness ==
    /\ segmented
    /\ \E t, u \in Threads :
          /\ SameSegment(th[t]) /\ th[t].op = "Range"
          /\ th[t].cb.pc = "lockwait"
          /\ SameSegment(th[u]) /\ th[u].op \in ExclusiveCallers
          /\ th[u].cb.pc = "lock"

=============================================================================
